---- MODULE Spec2Model ----
(***************************************************************************)
(* Retry layer of lib/prisma.ts: the failure classifier isRetryable, the   *)
(* multi-attempt query extension "enhanced-connection-retry" and the       *)
(* observable effects of one wrapped call (query invocations, console.warn *)
(* events, setTimeout suspensions).                                        *)
(*                                                                         *)
(* Text is modelled as a sequence of one-character strings so that the     *)
(* regular expressions of RETRYABLE_MESSAGE_PATTERNS are matched character *)
(* by character, case-insensitively, as RegExp.prototype.test does.        *)
(***************************************************************************)
EXTENDS Integers, Sequences, FiniteSets, TLC

VARIABLES
  calls,      \* ids of the wrapped calls the application issues in this run
  request,    \* request[c]: {model, operation, args} handed to $allOperations
  pc,         \* pc[c]: position of call c in $allOperations
  attempt,    \* attempt[c]: loop variable `attempt`
  lastError,  \* lastError[c]: local `lastError`
  result,     \* result[c]: value returned to the caller
  thrown,     \* thrown[c]: value propagated to the caller
  exitLine,   \* exitLine[c]: source line of the return/throw that ended c
  log,        \* log[c]: observable effects of call c, in program order
  arg,        \* classifier harness: the value handed to isRetryable
  verdict,    \* classifier harness: what isRetryable returned for arg
  hpc,        \* harness: "off", "ready" or "done"
  schedule,   \* the Delay Schedule the retry extension is configured with
  globalForPrisma, \* globalForPrisma.prisma: the client kept across reloads
  prisma,     \* the client the module exports (`const prisma`)
  nodeEnv,    \* process.env.NODE_ENV
  evaluations, \* how many times the module has been evaluated
  base,       \* jitter harness: the argument of jitter
  random,     \* jitter harness: what Math.random() returns, times RandomScale
  jittered    \* jitter harness: what jitter returned

envVars == <<schedule, globalForPrisma, prisma, nodeEnv, evaluations, base, random, jittered>>

vars == <<calls, request, pc, attempt, lastError, result, thrown, exitLine, log, arg, verdict, hpc, envVars>>

callVars == <<calls, request, pc, attempt, lastError, result, thrown, exitLine, log>>

(***************************************************************************)
(* Bounds of the model.                                                    *)
(***************************************************************************)
\* Math.random() is drawn from {k / RandomScale : k \in RandomSamples}.
RandomScale == 1000

\* The underlying query resolves to one of the values 1..NumResults.
NumResults == 2

(***************************************************************************)
(* Configuration of lib/prisma.ts.                                         *)
(***************************************************************************)
RETRYABLE_CODES == <<"P1001", "P1002", "P1008", "P1017", "P2024">>

RETRY_DELAYS_MS == <<1000, 2000, 3000>>

JitterMax == 250

\* "Can't reach database server"
PatCantReach ==
  <<"C", "a", "n", "'", "t", " ", "r", "e", "a", "c", "h", " ", "d", "a", "t", "a", "b", "a", "s", "e", " ", "s", "e", "r", "v", "e", "r">>
\* 'ECONNREFUSED'
PatEconnrefused ==
  <<"E", "C", "O", "N", "N", "R", "E", "F", "U", "S", "E", "D">>
\* 'ETIMEDOUT'
PatEtimedout ==
  <<"E", "T", "I", "M", "E", "D", "O", "U", "T">>
\* 'ECONNRESET'
PatEconnreset ==
  <<"E", "C", "O", "N", "N", "R", "E", "S", "E", "T">>
\* 'EAI_AGAIN'
PatEaiAgain ==
  <<"E", "A", "I", "_", "A", "G", "A", "I", "N">>
\* 'ENOTFOUND'
PatEnotfound ==
  <<"E", "N", "O", "T", "F", "O", "U", "N", "D">>
\* 'server closed the connection'
PatServerClosed ==
  <<"s", "e", "r", "v", "e", "r", " ", "c", "l", "o", "s", "e", "d", " ", "t", "h", "e", " ", "c", "o", "n", "n", "e", "c", "t", "i", "o", "n">>
\* 'Connection terminated'
PatConnTerminated ==
  <<"C", "o", "n", "n", "e", "c", "t", "i", "o", "n", " ", "t", "e", "r", "m", "i", "n", "a", "t", "e", "d">>
\* 'connection terminated unexpectedly'
PatConnTerminatedUnexpectedly ==
  <<"c", "o", "n", "n", "e", "c", "t", "i", "o", "n", " ", "t", "e", "r", "m", "i", "n", "a", "t", "e", "d", " ", "u", "n", "e", "x", "p", "e", "c", "t", "e", "d", "l", "y">>

\* Each regular expression is a set of alternatives, each a literal to be
\* found anywhere in the subject; all carry the flag i.
RETRYABLE_MESSAGE_PATTERNS ==
  << {PatCantReach}, {PatEconnrefused}, {PatEtimedout}, {PatEconnreset},
     {PatEaiAgain, PatEnotfound}, {PatServerClosed}, {PatConnTerminated},
     {PatConnTerminatedUnexpectedly} >>

(***************************************************************************)
(* Case-insensitive matching (flag i canonicalizes both sides to upper     *)
(* case before comparing).                                                 *)
(***************************************************************************)
\* 'A'..'Z'
UpperChars ==
  <<"A", "B", "C", "D", "E", "F", "G", "H", "I", "J", "K", "L", "M", "N", "O", "P", "Q", "R", "S", "T", "U", "V", "W", "X", "Y", "Z">>
\* 'a'..'z'
LowerChars ==
  <<"a", "b", "c", "d", "e", "f", "g", "h", "i", "j", "k", "l", "m", "n", "o", "p", "q", "r", "s", "t", "u", "v", "w", "x", "y", "z">>

UpperOf ==
  [ch \in {LowerChars[i] : i \in 1..Len(LowerChars)} |->
     UpperChars[CHOOSE i \in 1..Len(LowerChars) : LowerChars[i] = ch]]

Canonicalize(ch) == IF ch \in DOMAIN UpperOf THEN UpperOf[ch] ELSE ch

CanonicalizeAll(s) == [i \in 1..Len(s) |-> Canonicalize(s[i])]

\* the canonicalized literal u occurs in the canonicalized subject t at i
MatchesAt(u, t, i) == \A j \in 1..Len(u) : t[i + j - 1] = u[j]

\* pattern.test(s)
Test(pattern, s) ==
  LET t == CanonicalizeAll(s) IN
    \E lit \in pattern :
      LET u == CanonicalizeAll(lit) IN
        \E i \in 1..(Len(t) - Len(u) + 1) : MatchesAt(u, t, i)

\* RETRYABLE_MESSAGE_PATTERNS.some(pattern => pattern.test(s))
SomePatternMatches(s) ==
  \E k \in 1..Len(RETRYABLE_MESSAGE_PATTERNS) : Test(RETRYABLE_MESSAGE_PATTERNS[k], s)

(***************************************************************************)
(* Failure values.  A thrown value is a record                             *)
(*   kind    : the Prisma error class it is an instance of, or "Other"     *)
(*   code    : e.code (known request error) / e.errorCode (initialization  *)
(*             error), "undefined" when absent                             *)
(*   message : [type, text]: typeof e.message and its string form          *)
(*   oid     : identity of the object (which invocation raised it)         *)
(***************************************************************************)
Undefined == "undefined"

InitializationError == "PrismaClientInitializationError"

KnownRequestError == "PrismaClientKnownRequestError"

UnknownRequestError == "PrismaClientUnknownRequestError"

OtherValue == "Other"

\* "Can't reach database server at db:5432"
MsgCantReach ==
  <<"C", "a", "n", "'", "t", " ", "r", "e", "a", "c", "h", " ", "d", "a", "t", "a", "b", "a", "s", "e", " ", "s", "e", "r", "v", "e", "r", " ", "a", "t", " ", "d", "b", ":", "5", "4", "3", "2">>
\* 'connect ECONNREFUSED db:5432'
MsgRefused ==
  <<"c", "o", "n", "n", "e", "c", "t", " ", "E", "C", "O", "N", "N", "R", "E", "F", "U", "S", "E", "D", " ", "d", "b", ":", "5", "4", "3", "2">>
\* 'read etimedout'
MsgTimedOutLower ==
  <<"r", "e", "a", "d", " ", "e", "t", "i", "m", "e", "d", "o", "u", "t">>
\* 'read ECONNRESET'
MsgReset ==
  <<"r", "e", "a", "d", " ", "E", "C", "O", "N", "N", "R", "E", "S", "E", "T">>
\* 'getaddrinfo EAI_AGAIN db'
MsgEaiAgain ==
  <<"g", "e", "t", "a", "d", "d", "r", "i", "n", "f", "o", " ", "E", "A", "I", "_", "A", "G", "A", "I", "N", " ", "d", "b">>
\* 'getaddrinfo enotfound db'
MsgNotFound ==
  <<"g", "e", "t", "a", "d", "d", "r", "i", "n", "f", "o", " ", "e", "n", "o", "t", "f", "o", "u", "n", "d", " ", "d", "b">>
\* 'Server closed the connection unexpectedly'
MsgServerClosed ==
  <<"S", "e", "r", "v", "e", "r", " ", "c", "l", "o", "s", "e", "d", " ", "t", "h", "e", " ", "c", "o", "n", "n", "e", "c", "t", "i", "o", "n", " ", "u", "n", "e", "x", "p", "e", "c", "t", "e", "d", "l", "y">>
\* 'Server has closed the connection.'
MsgServerHasClosed ==
  <<"S", "e", "r", "v", "e", "r", " ", "h", "a", "s", " ", "c", "l", "o", "s", "e", "d", " ", "t", "h", "e", " ", "c", "o", "n", "n", "e", "c", "t", "i", "o", "n", ".">>
\* 'Connection terminated unexpectedly'
MsgTerminated ==
  <<"C", "o", "n", "n", "e", "c", "t", "i", "o", "n", " ", "t", "e", "r", "m", "i", "n", "a", "t", "e", "d", " ", "u", "n", "e", "x", "p", "e", "c", "t", "e", "d", "l", "y">>
\* 'Unique constraint failed on the fields: (email)'
MsgUnique ==
  <<"U", "n", "i", "q", "u", "e", " ", "c", "o", "n", "s", "t", "r", "a", "i", "n", "t", " ", "f", "a", "i", "l", "e", "d", " ", "o", "n", " ", "t", "h", "e", " ", "f", "i", "e", "l", "d", "s", ":", " ", "(", "e", "m", "a", "i", "l", ")">>
\* 'Operations timed out'
MsgOpTimedOut ==
  <<"O", "p", "e", "r", "a", "t", "i", "o", "n", "s", " ", "t", "i", "m", "e", "d", " ", "o", "u", "t">>
\* ''
MsgEmpty ==
  <<>>
\* '42'
TxtNumber ==
  <<"4", "2">>
\* 'ECONNRESET'
TxtArray ==
  <<"E", "C", "O", "N", "N", "R", "E", "S", "E", "T">>
\* 'undefined'
TxtUndefined ==
  <<"u", "n", "d", "e", "f", "i", "n", "e", "d">>

StringMessage(t) == [type |-> "string", text |-> t]

\* e.message is absent (also: the thrown value is null, undefined or a primitive)
NoMessage == [type |-> Undefined, text |-> TxtUndefined]

\* e.message is the number 42
NumberMessage == [type |-> "number", text |-> TxtNumber]

\* e.message is the array ["ECONNRESET"], whose string form is ECONNRESET
ArrayMessage == [type |-> "object", text |-> TxtArray]

StringMessages ==
  { StringMessage(t) : t \in
      { MsgCantReach, MsgRefused, MsgTimedOutLower, MsgReset, MsgEaiAgain,
        MsgNotFound, MsgServerClosed, MsgServerHasClosed, MsgTerminated,
        MsgUnique, MsgOpTimedOut, MsgEmpty } }

NoOid == <<0, 0>>

Failure(kind, code, message, oid) ==
  [kind |-> kind, code |-> code, message |-> message, oid |-> oid]

\* the value `undefined` where a failure value is expected
UndefinedValue == Failure(Undefined, Undefined, NoMessage, NoOid)

(***************************************************************************)
(* isRetryable (multi-attempt variant).                                    *)
(***************************************************************************)
\* array.includes(x)
Includes(array, x) == \E i \in 1..Len(array) : array[i] = x

\* m ?? ''
OrEmpty(m) == IF m.type = Undefined THEN StringMessage(MsgEmpty) ELSE m

\* variant: an initialization error is judged by its errorCode
isRetryable_InitByCode(e) ==
  IF e.kind = InitializationError
    THEN Includes(RETRYABLE_CODES, IF e.code = Undefined THEN "" ELSE e.code)
  ELSE IF e.kind = KnownRequestError THEN Includes(RETRYABLE_CODES, e.code)
  ELSE LET m == OrEmpty(e.message) IN
         (e.kind = UnknownRequestError \/ m.type = "string") /\ SomePatternMatches(m.text)

\* variant: a known request error with another code falls through to the
\* message patterns
isRetryable_KnownFallsThrough(e) ==
  IF e.kind = InitializationError THEN TRUE
  ELSE IF e.kind = KnownRequestError /\ Includes(RETRYABLE_CODES, e.code) THEN TRUE
  ELSE LET m == OrEmpty(e.message) IN
         (e.kind = UnknownRequestError \/ m.type = "string") /\ SomePatternMatches(m.text)

\* variant: no message patterns, only the two coded classes
isRetryable_NoPatternFallback(e) ==
  IF e.kind = InitializationError THEN TRUE
  ELSE IF e.kind = KnownRequestError THEN Includes(RETRYABLE_CODES, e.code)
  ELSE FALSE

isRetryable(e) ==
  IF e.kind = InitializationError THEN TRUE
  ELSE IF e.kind = KnownRequestError THEN Includes(RETRYABLE_CODES, e.code)
  ELSE IF e.kind = UnknownRequestError
    THEN LET msg == OrEmpty(e.message) IN SomePatternMatches(msg.text)
  ELSE LET errorMessage == OrEmpty(e.message) IN
         IF errorMessage.type = "string"
           THEN SomePatternMatches(errorMessage.text)
           ELSE FALSE

(***************************************************************************)
(* getErrorIdentifier.                                                     *)
(***************************************************************************)
\* variant: the branch for initialization errors is missing
getErrorIdentifier_NoInitBranch(e) ==
  IF e.kind = KnownRequestError THEN e.code
  ELSE IF e.kind = UnknownRequestError THEN "PRISMA_UNKNOWN_REQUEST_ERROR"
  ELSE "UNKNOWN_ERROR_PRISMA"

getErrorIdentifier(e) ==
  IF e.kind = KnownRequestError THEN e.code
  ELSE IF e.kind = UnknownRequestError THEN "PRISMA_UNKNOWN_REQUEST_ERROR"
  ELSE IF e.kind = InitializationError
    THEN (IF e.code = Undefined THEN "PRISMA_CLIENT_INITIALIZATION_ERROR" ELSE e.code)
  ELSE "UNKNOWN_ERROR_PRISMA"

(***************************************************************************)
(* Inputs of the classifier harness: every shape of thrown value.  The     *)
(* Prisma error classes extend Error, whose constructor stores the message *)
(* as a string; only a foreign value can have no or a non-text message.    *)
(***************************************************************************)
CodesOutsideSet == {"P1003", "P2002"}

ClassifierInputs ==
  { Failure(InitializationError, c, m, NoOid) :
      c \in {Undefined, "P1001", "P1003"}, m \in StringMessages }
  \cup
  { Failure(KnownRequestError, c, m, NoOid) :
      c \in {RETRYABLE_CODES[i] : i \in 1..Len(RETRYABLE_CODES)} \cup CodesOutsideSet,
      m \in {StringMessage(MsgCantReach), StringMessage(MsgUnique), StringMessage(MsgEmpty)} }
  \cup
  { Failure(UnknownRequestError, Undefined, m, NoOid) : m \in StringMessages }
  \cup
  { Failure(OtherValue, Undefined, m, NoOid) :
      m \in StringMessages \cup {NoMessage, NumberMessage, ArrayMessage} }

(***************************************************************************)
(* jitter: Math.random() is rnd / RandomScale, a number in [0, 1).         *)
(***************************************************************************)
RandomSamples == {0, RandomScale \div 2, RandomScale - 1}

\* variant: the random factor is one too large
jitter_Inclusive(ms, rnd) == ms + ((rnd * (JitterMax + 1)) \div RandomScale)

jitter(ms, rnd) == ms + ((rnd * JitterMax) \div RandomScale)

(***************************************************************************)
(* The wrapped call: $allOperations of "enhanced-connection-retry".        *)
(***************************************************************************)
MaxCalls == 2

CallIds == 1..MaxCalls

Models == {"User"}

Operations == {"findMany", "create"}

ArgsValues == {"args"}

Results == 1..NumResults

NoRequest == [model |-> "", operation |-> "", args |-> ""]

NoResult == [val |-> 0, from |-> NoOid]

\* The failures the underlying query raises, one of each class and verdict.
QueryErrors ==
  { [kind |-> InitializationError, code |-> Undefined, message |-> StringMessage(MsgCantReach)],
    [kind |-> InitializationError, code |-> "P1003", message |-> StringMessage(MsgUnique)],
    [kind |-> KnownRequestError, code |-> "P1001", message |-> StringMessage(MsgCantReach)],
    [kind |-> KnownRequestError, code |-> "P2002", message |-> StringMessage(MsgUnique)],
    [kind |-> UnknownRequestError, code |-> Undefined, message |-> StringMessage(MsgServerClosed)],
    [kind |-> UnknownRequestError, code |-> Undefined, message |-> StringMessage(MsgUnique)],
    [kind |-> OtherValue, code |-> Undefined, message |-> StringMessage(MsgReset)],
    [kind |-> OtherValue, code |-> Undefined, message |-> NoMessage] }

\* Views of the effect log of one call.
OfType(lg, t) == SelectSeq(lg, LAMBDA en : en.type = t)

Invocations(c) == Len(OfType(log[c], "query"))

Delays(c) == OfType(log[c], "setTimeout")

Events(c) == OfType(log[c], "warn")

Outcomes(c) == SelectSeq(log[c], LAMBDA en : en.type \in {"resolve", "reject"})

\* what an index outside the array yields (stands for `undefined`)
OutOfRange == -1

\* variant: the entry after the one of this attempt is read
At_NextEntry(array, i) == IF i + 2 \in 1..Len(array) THEN array[i + 2] ELSE OutOfRange

\* array[i] with a 0-based index
At(array, i) == IF i + 1 \in 1..Len(array) THEN array[i + 1] ELSE OutOfRange

\* variant: the loop bound excludes the last attempt
LoopCondition_StrictlyLess(a) == a < Len(schedule)

\* for (...; attempt <= RETRY_DELAYS_MS.length; ...)
LoopCondition(a) == a <= Len(schedule)

\* variant: exhaustion is noticed one attempt late
Exhausted_Late(a) == a > Len(schedule)

\* if (attempt >= RETRY_DELAYS_MS.length) throw err
Exhausted(a) == a >= Len(schedule)

\* variant: the delay is reported without the division by 1000
Seconds_NoDivision(ms) == [whole |-> ms, thousandths |-> 0]

\* `${delayMs / 1000}`: the decimal number, as whole seconds and thousandths
Seconds(ms) == [whole |-> ms \div 1000, thousandths |-> ms % 1000]

\* s.slice(0, n)
Slice(s, n) == SubSeq(s, 1, IF Len(s) < n THEN Len(s) ELSE n)

\* (err as Error).message?.slice(0, 100) + '…'   ("..." stands for U+2026)
WarnDetail(e) ==
  (IF e.message.type = Undefined THEN TxtUndefined ELSE Slice(e.message.text, 100))
    \o <<"...">>

\* the console.warn call of lines 146-149
WarnEntry(req, a, e, delayMs) ==
  [type |-> "warn", model |-> req.model, operation |-> req.operation,
   errorId |-> getErrorIdentifier(e), attempt |-> a + 1,
   total |-> Len(schedule) + 1, retryIn |-> Seconds(delayMs),
   detail |-> WarnDetail(e)]

\* variant: the retry follows at once, no timer is started
RetryEffects_NoDelay(req, a, e, delayMs, rnd) ==
  << WarnEntry(req, a, e, delayMs) >>

\* variant: the retry is silent
RetryEffects_NoWarn(req, a, e, delayMs, rnd) ==
  << [type |-> "setTimeout", ms |-> jitter(delayMs, rnd)] >>

\* lines 146-153: the console.warn call, then the setTimeout of the delay
RetryEffects(req, a, e, delayMs, rnd) ==
  << WarnEntry(req, a, e, delayMs),
     [type |-> "setTimeout", ms |-> jitter(delayMs, rnd)] >>

\* variant: the fail-fast test is missing
FailFast_Never(err) == FALSE

\* if (!isRetryable(err)) throw err
FailFast(err) == ~isRetryable(err)

\* variant: the catch block throws the error remembered before this attempt
Rethrown_Stale(err, last) == last

\* `throw err` of lines 134 and 139; `last` is lastError before line 130
Rethrown(err, last) == err

\* variant: the awaited value is not passed on
Returned_Dropped(r) == NoResult

\* `return await query(args)`: r is the value the query resolved with
Returned(r) == r

Terminate(c, state, value, line) ==
  /\ pc' = [pc EXCEPT ![c] = state]
  /\ exitLine' = [exitLine EXCEPT ![c] = line]
  /\ IF state = "returned"
       THEN result' = [result EXCEPT ![c] = value] /\ UNCHANGED thrown
       ELSE thrown' = [thrown EXCEPT ![c] = value] /\ UNCHANGED result

\* variant: one counter at module level, shared by all calls
Assign_Shared(f, c, a) == [d \in DOMAIN f |-> a]

\* assignment to `attempt`, a variable local to the call c
Assign(f, c, a) == [f EXCEPT ![c] = a]

\* Line 126 with attempt = a: either the next `query(args)` or line 158.
LoopHead(c, a, lg) ==
  /\ attempt' = Assign(attempt, c, a)
  /\ IF LoopCondition(a)
       THEN /\ log' = [log EXCEPT ![c] = Append(lg, [type |-> "query", args |-> request'[c].args])]
            /\ pc' = [pc EXCEPT ![c] = "awaitQuery"]
            /\ UNCHANGED <<result, thrown, exitLine>>
       ELSE /\ log' = [log EXCEPT ![c] = lg]
            /\ Terminate(c, "thrown", lastError'[c], 158)

\* The application calls an operation of a model through the extended client.
AllOperations(c, model, operation, args) ==
  /\ c \in calls
  /\ pc[c] = "idle"
  /\ request' = [request EXCEPT ![c] = [model |-> model, operation |-> operation, args |-> args]]
  /\ lastError' = [lastError EXCEPT ![c] = UndefinedValue]
  /\ LoopHead(c, 0, log[c])
  /\ UNCHANGED <<calls, arg, verdict, hpc, envVars>>

\* `await query(args)` resolves with value v: line 128 returns it.
QueryResolves(c, v) ==
  /\ pc[c] = "awaitQuery"
  /\ LET r == [val |-> v, from |-> <<c, Invocations(c)>>] IN
       /\ log' = [log EXCEPT ![c] = Append(@, [type |-> "resolve", value |-> r])]
       /\ Terminate(c, "returned", Returned(r), 128)
  /\ UNCHANGED <<calls, request, attempt, lastError, arg, verdict, hpc, envVars>>

\* `await query(args)` rejects with a value of shape sh: the catch block.
QueryRejects(c, sh, rnd) ==
  /\ pc[c] = "awaitQuery"
  /\ LET err == Failure(sh.kind, sh.code, sh.message, <<c, Invocations(c)>>)
         lg  == Append(log[c], [type |-> "reject", err |-> err])
     IN
       /\ lastError' = [lastError EXCEPT ![c] = err]
       /\ IF FailFast(err)
            THEN /\ log' = [log EXCEPT ![c] = lg]
                 /\ Terminate(c, "thrown", Rethrown(err, lastError[c]), 134)
          ELSE IF Exhausted(attempt[c])
            THEN /\ log' = [log EXCEPT ![c] = lg]
                 /\ Terminate(c, "thrown", Rethrown(err, lastError[c]), 139)
          ELSE LET delayMs == At(schedule, attempt[c]) IN
                 /\ log' = [log EXCEPT ![c] =
                      lg \o RetryEffects(request[c], attempt[c], err, delayMs, rnd)]
                 /\ pc' = [pc EXCEPT ![c] = "awaitDelay"]
                 /\ UNCHANGED <<result, thrown, exitLine>>
  /\ UNCHANGED <<calls, request, attempt, arg, verdict, hpc, envVars>>

\* The timer of line 153 fires: attempt++ and back to the loop head.
DelayElapses(c) ==
  /\ pc[c] = "awaitDelay"
  /\ UNCHANGED <<calls, request, lastError, arg, verdict, hpc, envVars>>
  /\ LoopHead(c, attempt[c] + 1, log[c])

\* no client yet
NoClient == [id |-> 0, layers |-> <<>>]

\* the module has not been evaluated and the harnesses are not in use
EnvInit ==
  /\ globalForPrisma = NoClient
  /\ prisma = NoClient
  /\ nodeEnv = "development"
  /\ evaluations = 0
  /\ base = 0
  /\ random = 0
  /\ jittered = 0

Init ==
  /\ schedule = RETRY_DELAYS_MS
  /\ EnvInit
  /\ calls = {1}
  /\ request = [c \in CallIds |-> NoRequest]
  /\ pc = [c \in CallIds |-> "idle"]
  /\ attempt = [c \in CallIds |-> 0]
  /\ lastError = [c \in CallIds |-> UndefinedValue]
  /\ result = [c \in CallIds |-> NoResult]
  /\ thrown = [c \in CallIds |-> UndefinedValue]
  /\ exitLine = [c \in CallIds |-> 0]
  /\ log = [c \in CallIds |-> <<>>]
  /\ arg = UndefinedValue
  /\ verdict = FALSE
  /\ hpc = "off"

Next ==
  \/ \E c \in CallIds, m \in Models, op \in Operations, a \in ArgsValues : AllOperations(c, m, op, a)
  \/ \E c \in CallIds, v \in Results : QueryResolves(c, v)
  \/ \E c \in CallIds, sh \in QueryErrors, rnd \in RandomSamples : QueryRejects(c, sh, rnd)
  \/ \E c \in CallIds : DelayElapses(c)

Spec == Init /\ [][Next]_vars

(***************************************************************************)
(* Classifier harness: isRetryable applied to one value of every shape.    *)
(***************************************************************************)
InitClassify ==
  /\ schedule = RETRY_DELAYS_MS
  /\ EnvInit
  /\ calls = {}
  /\ request = [c \in CallIds |-> NoRequest]
  /\ pc = [c \in CallIds |-> "idle"]
  /\ attempt = [c \in CallIds |-> 0]
  /\ lastError = [c \in CallIds |-> UndefinedValue]
  /\ result = [c \in CallIds |-> NoResult]
  /\ thrown = [c \in CallIds |-> UndefinedValue]
  /\ exitLine = [c \in CallIds |-> 0]
  /\ log = [c \in CallIds |-> <<>>]
  /\ arg \in ClassifierInputs
  /\ verdict = FALSE
  /\ hpc = "ready"

Classify ==
  /\ hpc = "ready"
  /\ verdict' = isRetryable(arg)
  /\ hpc' = "done"
  /\ UNCHANGED <<callVars, arg, envVars>>

NextClassify == Classify

SpecClassify == InitClassify /\ [][NextClassify]_vars
(***************************************************************************)
(* Properties of the wrapped call (specification Spec).                    *)
(***************************************************************************)
Terminated(c) == pc[c] \in {"returned", "thrown"}

RetryableReject(en) == en.type = "reject" /\ isRetryable(en.err)

\* the first k outcomes of call c are retryable failures
FirstAreRetryable(c, k) == \A i \in 1..k : RetryableReject(Outcomes(c)[i])

ScheduleLength == Len(RETRY_DELAYS_MS)

\* C1: while every outcome of a call is a retryable failure, the call has
\* made at most ScheduleLength + 1 invocations; once it has ended, or once
\* ScheduleLength + 1 such failures have occurred, it has made exactly
\* ScheduleLength + 1 (= 4) invocations, it has propagated a failure and no
\* invocation is pending.
C1_ExhaustionAfterAllAttempts ==
  \A c \in calls :
    FirstAreRetryable(c, Len(Outcomes(c))) =>
      /\ Invocations(c) <= ScheduleLength + 1
      /\ ScheduleLength + 1 = 4
      /\ (pc[c] # "idle" /\ (Terminated(c) \/ Len(Outcomes(c)) = ScheduleLength + 1)) =>
            /\ pc[c] = "thrown"
            /\ Invocations(c) = ScheduleLength + 1
            /\ Len(Outcomes(c)) = ScheduleLength + 1

C1_Witness ==
  /\ pc[1] = "thrown"
  /\ Len(Outcomes(1)) = 4
  /\ FirstAreRetryable(1, 4)
  /\ Invocations(1) = 4

\* C2: a call that has ended unsuccessfully ended either at the fail-fast
\* throw with a last failure classified non-retryable, or at the exhaustion
\* throw with a retryable last failure and attempt = ScheduleLength; the
\* value propagated is the object raised by the last invocation and differs
\* from the failure of every earlier attempt.
C2_TwoWaysToFail ==
  \A c \in calls :
    pc[c] = "thrown" =>
      LET n    == Len(Outcomes(c))
          last == Outcomes(c)[n]
      IN /\ n >= 1
         /\ n = Invocations(c)
         /\ last.type = "reject"
         /\ \/ exitLine[c] = 134 /\ ~isRetryable(last.err)
            \/ exitLine[c] = 139 /\ isRetryable(last.err) /\ attempt[c] = ScheduleLength
         /\ thrown[c] = last.err
         /\ thrown[c].oid = <<c, Invocations(c)>>
         /\ \A i \in 1..(n - 1) : Outcomes(c)[i].err # thrown[c]

C2_Witness ==
  /\ pc[1] = "thrown"
  /\ exitLine[1] = 139
  /\ attempt[1] = 3
  /\ thrown[1].oid = <<1, 4>>
  /\ thrown[1].kind = KnownRequestError
  /\ Outcomes(1)[3].err.kind = KnownRequestError

\* C3: a failure classified non-retryable is the last effect of its call:
\* the call has propagated that very failure and no invocation, delay or
\* diagnostic event follows it; when it is the failure of the first
\* attempt the call has made 1 invocation, 0 delays and emitted 0 events.
C3_NonRetryableFailsFast ==
  \A c \in calls : \A i \in 1..Len(log[c]) :
    (log[c][i].type = "reject" /\ ~isRetryable(log[c][i].err)) =>
      /\ i = Len(log[c])
      /\ pc[c] = "thrown"
      /\ thrown[c] = log[c][i].err
      /\ Len(Outcomes(c)) = 1 =>
            (Invocations(c) = 1 /\ Len(Delays(c)) = 0 /\ Len(Events(c)) = 0)

C3_Witness ==
  /\ pc[1] = "thrown"
  /\ exitLine[1] = 134
  /\ Len(Outcomes(1)) = 3
  /\ ~isRetryable(Outcomes(1)[3].err)
  /\ Len(Delays(1)) = 2

\* C4: when the outcomes of a call are K retryable failures followed by a
\* success, K < ScheduleLength, the call has made K + 1 invocations, has
\* suspended K times and has returned the value of invocation K + 1.
C4_SuccessAfterKFailures ==
  \A c \in calls : \A K \in 0..(ScheduleLength - 1) :
    (/\ Len(Outcomes(c)) = K + 1
     /\ FirstAreRetryable(c, K)
     /\ Outcomes(c)[K + 1].type = "resolve") =>
      /\ pc[c] = "returned"
      /\ Invocations(c) = K + 1
      /\ Len(Delays(c)) = K
      /\ result[c] = Outcomes(c)[K + 1].value
      /\ result[c].from = <<c, K + 1>>

C4_Witness ==
  /\ pc[1] = "returned"
  /\ Len(Outcomes(1)) = 3
  /\ FirstAreRetryable(1, 2)
  /\ Len(Delays(1)) = 2
  /\ result[1] = [val |-> 2, from |-> <<1, 3>>]

\* C5: a success is the last effect of its call: the call has returned the
\* value the query resolved with and no invocation or delay follows; a call
\* holds at most one success, and a success of the first attempt leaves 1
\* invocation and 0 delays.
C5_SuccessReturnsAtOnce ==
  \A c \in calls :
    /\ Len(OfType(log[c], "resolve")) <= 1
    /\ \A i \in 1..Len(log[c]) :
         log[c][i].type = "resolve" =>
           /\ i = Len(log[c])
           /\ pc[c] = "returned"
           /\ exitLine[c] = 128
           /\ result[c] = log[c][i].value
           /\ result[c].from = <<c, Invocations(c)>>
           /\ Len(Outcomes(c)) = 1 => (Invocations(c) = 1 /\ Len(Delays(c)) = 0)

C5_Witness ==
  /\ pc[1] = "returned"
  /\ Len(Outcomes(1)) = 1
  /\ Invocations(1) = 1
  /\ Len(Delays(1)) = 0
  /\ result[1].val = 1
\* the delay a diagnostic event reports, in milliseconds
ReportedMs(en) == en.retryIn.whole * 1000 + en.retryIn.thousandths

\* C9: at every suspension point of a call the events emitted are as many
\* as the delays started; each event directly follows a retryable failure
\* and directly precedes the timer of that retry, each timer follows an
\* event, and every failure that is not the last effect of the call is
\* followed by its event; a call that has ended emitted no event for its
\* last outcome (the success, the non-retryable failure or the final
\* failure), so 3 retryable failures and a success leave exactly 3 events.
C9_OneEventPerRetry ==
  \A c \in calls :
    /\ Len(Events(c)) = Len(Delays(c))
    /\ \A i \in 1..Len(log[c]) :
         /\ log[c][i].type = "warn" =>
              /\ i > 1 /\ RetryableReject(log[c][i - 1])
              /\ i < Len(log[c]) /\ log[c][i + 1].type = "setTimeout"
         /\ log[c][i].type = "setTimeout" => (i > 1 /\ log[c][i - 1].type = "warn")
         /\ (log[c][i].type = "reject" /\ i < Len(log[c])) => log[c][i + 1].type = "warn"
    /\ \A k \in 1..Len(Events(c)) : Events(c)[k].attempt = k
    /\ Terminated(c) =>
         /\ log[c][Len(log[c])].type \in {"resolve", "reject"}
         /\ Len(Events(c)) = Len(Outcomes(c)) - 1
    /\ (pc[c] = "returned" /\ Len(Outcomes(c)) = 4) => Len(Events(c)) = 3

C9_Witness ==
  /\ pc[1] = "returned"
  /\ Len(Outcomes(1)) = 4
  /\ \A i \in 1..3 : Outcomes(1)[i].type = "reject"
                      /\ Outcomes(1)[i].err.kind = InitializationError
  /\ Len(Events(1)) = 3
  /\ Len(Delays(1)) = 3

\* C10 as stated: the delay every diagnostic event reports equals the
\* duration of the timer the wrapper then starts.
C10_EventReportsSuspension ==
  \A c \in calls : \A i \in 1..(Len(log[c]) - 1) :
    log[c][i].type = "warn" => ReportedMs(log[c][i]) = log[c][i + 1].ms

\* C10 amended: the delay every diagnostic event reports is the entry of
\* RETRY_DELAYS_MS for its attempt, and the timer the wrapper then starts
\* lasts that long plus a jitter of 0..JitterMax-1 milliseconds.
C10_EventReportsBaseDelay ==
  \A c \in calls : \A i \in 1..(Len(log[c]) - 1) :
    log[c][i].type = "warn" =>
      /\ log[c][i].attempt \in 1..ScheduleLength
      /\ ReportedMs(log[c][i]) = RETRY_DELAYS_MS[log[c][i].attempt]
      /\ log[c][i + 1].type = "setTimeout"
      /\ log[c][i + 1].ms - ReportedMs(log[c][i]) \in 0..(JitterMax - 1)

C10_Witness ==
  /\ pc[1] = "awaitDelay"
  /\ Len(Events(1)) = 2
  /\ ReportedMs(Events(1)[2]) = 2000
  /\ Delays(1)[2].ms = 2249
  /\ Delays(1)[1].ms = 1000

(***************************************************************************)
(* Properties of isRetryable (specification SpecClassify).                 *)
(***************************************************************************)
\* C6: isRetryable returns true for every initialization error, whatever
\* its errorCode (absent, in RETRYABLE_CODES or outside it) and its message.
C6_InitializationAlwaysRetryable ==
  (hpc = "done" /\ arg.kind = InitializationError) => verdict = TRUE

C6_Witness ==
  /\ hpc = "done"
  /\ arg.kind = InitializationError
  /\ arg.code = "P1003"
  /\ arg.message = StringMessage(MsgUnique)
  /\ verdict = TRUE

\* C7: for a known request error isRetryable returns true iff its code is
\* one of P1001, P1002, P1008, P1017, P2024, whatever its message.
C7_KnownRequestByCodeOnly ==
  (hpc = "done" /\ arg.kind = KnownRequestError) =>
    (verdict <=> arg.code \in {"P1001", "P1002", "P1008", "P1017", "P2024"})

C7_Witness ==
  /\ hpc = "done"
  /\ arg.kind = KnownRequestError
  /\ arg.code = "P2002"
  /\ arg.message = StringMessage(MsgCantReach)
  /\ SomePatternMatches(arg.message.text)
  /\ verdict = FALSE

\* C8: for an unknown request error and for any other value isRetryable
\* returns true iff the message is a text that matches at least one of
\* RETRYABLE_MESSAGE_PATTERNS; an absent or non-text message matches none.
C8_UntaggedByMessagePattern ==
  (hpc = "done" /\ arg.kind \in {UnknownRequestError, OtherValue}) =>
    (verdict <=> (arg.message.type = "string" /\ SomePatternMatches(arg.message.text)))

C8_Witness ==
  /\ hpc = "done"
  /\ arg.kind = OtherValue
  /\ arg.code = Undefined
  /\ arg.message = StringMessage(MsgTimedOutLower)
  /\ verdict = TRUE
(***************************************************************************)
(* Jitter harness: jitter applied to every entry of RETRY_DELAYS_MS, for   *)
(* every value Math.random() can take at resolution 1 / RandomScale.       *)
(***************************************************************************)
MathRandomValues == 0..(RandomScale - 1)

IdleCalls ==
  /\ calls = {}
  /\ request = [c \in CallIds |-> NoRequest]
  /\ pc = [c \in CallIds |-> "idle"]
  /\ attempt = [c \in CallIds |-> 0]
  /\ lastError = [c \in CallIds |-> UndefinedValue]
  /\ result = [c \in CallIds |-> NoResult]
  /\ thrown = [c \in CallIds |-> UndefinedValue]
  /\ exitLine = [c \in CallIds |-> 0]
  /\ log = [c \in CallIds |-> <<>>]

InitJitter ==
  /\ IdleCalls
  /\ schedule = RETRY_DELAYS_MS
  /\ globalForPrisma = NoClient
  /\ prisma = NoClient
  /\ nodeEnv = "development"
  /\ evaluations = 0
  /\ arg = UndefinedValue
  /\ verdict = FALSE
  /\ hpc = "ready"
  /\ base \in {RETRY_DELAYS_MS[i] : i \in 1..Len(RETRY_DELAYS_MS)}
  /\ random \in MathRandomValues
  /\ jittered = 0

JitterCall ==
  /\ hpc = "ready"
  /\ jittered' = jitter(base, random)
  /\ hpc' = "done"
  /\ UNCHANGED <<callVars, arg, verdict, schedule, globalForPrisma, prisma,
                 nodeEnv, evaluations, base, random>>

NextJitter == JitterCall

SpecJitter == InitJitter /\ [][NextJitter]_vars

\* C11: for every entry d of RETRY_DELAYS_MS and every value of
\* Math.random(), jitter(d) is d plus the random value times 250 rounded
\* down to an integer, and lies in [d, d + 250).
C11_JitterRange ==
  hpc = "done" =>
    /\ jittered >= base
    /\ jittered < base + 250
    /\ (jittered - base) * RandomScale <= random * 250
    /\ random * 250 < (jittered - base + 1) * RandomScale

C11_Witness ==
  /\ hpc = "done"
  /\ base = 3000
  /\ random = RandomScale - 1
  /\ jittered = 3249
(***************************************************************************)
(* Further properties of the wrapped call.                                 *)
(***************************************************************************)
\* C13: within one call the k-th delay, which follows the failure at
\* attempt index k - 1, has base RETRY_DELAYS_MS[k - 1] (0-based): the
\* bases are 1000, 2000, 3000 in this order, at most one delay per entry,
\* and the index read while a delay is pending is the attempt index, which
\* lies inside the schedule.
C13_DelaysFollowSchedule ==
  \A c \in calls :
    /\ RETRY_DELAYS_MS = <<1000, 2000, 3000>>
    /\ Len(Delays(c)) <= ScheduleLength
    /\ Len(Events(c)) = Len(Delays(c))
    /\ \A k \in 1..Len(Delays(c)) :
         /\ k <= ScheduleLength
         /\ Events(c)[k].attempt = k
         /\ ReportedMs(Events(c)[k]) = RETRY_DELAYS_MS[k]
         /\ Delays(c)[k].ms >= RETRY_DELAYS_MS[k]
         /\ Delays(c)[k].ms < RETRY_DELAYS_MS[k] + JitterMax
    /\ pc[c] = "awaitDelay" =>
         /\ attempt[c] \in 0..(ScheduleLength - 1)
         /\ Len(Delays(c)) = attempt[c] + 1

C13_Witness ==
  /\ pc[1] = "awaitDelay"
  /\ attempt[1] = 2
  /\ Len(Delays(1)) = 3
  /\ Delays(1)[1].ms = 1000
  /\ Delays(1)[2].ms = 2249
  /\ Delays(1)[3].ms = 3125

\* Every invocation of the query completes and every timer fires.
QueryCompletes ==
  \E c \in CallIds :
    \/ \E v \in Results : QueryResolves(c, v)
    \/ \E sh \in QueryErrors, rnd \in RandomSamples : QueryRejects(c, sh, rnd)

TimerFires == \E c \in CallIds : DelayElapses(c)

SpecLive == Init /\ [][Next]_vars /\ WF_vars(QueryCompletes) /\ WF_vars(TimerFires)

\* C14: a call has always made at most ScheduleLength + 1 invocations and
\* started at most ScheduleLength delays, and, every invocation and every
\* delay completing, a call that has started eventually ends by returning
\* a result or propagating a failure.
C14_TerminatesWithinBounds ==
  /\ [](\A c \in CallIds :
          /\ Invocations(c) <= ScheduleLength + 1
          /\ Len(Delays(c)) <= ScheduleLength)
  /\ \A c \in CallIds : (pc[c] # "idle") ~> Terminated(c)

C14_Witness ==
  /\ pc[1] = "thrown"
  /\ Invocations(1) = ScheduleLength + 1
  /\ Len(Delays(1)) = ScheduleLength

\* C15: no call ends at the `throw lastError` after the loop (line 158):
\* a call that has ended left from line 128, 134 or 139, and whenever a
\* delay is pending the loop condition will hold for the next attempt.
C15_PostLoopThrowUnreachable ==
  \A c \in calls :
    /\ exitLine[c] # 158
    /\ pc[c] = "returned" => exitLine[c] = 128
    /\ pc[c] = "thrown" => exitLine[c] \in {134, 139}
    /\ pc[c] = "awaitDelay" => attempt[c] + 1 <= ScheduleLength

C15_Witness ==
  /\ pc[1] = "thrown"
  /\ exitLine[1] = 139
  /\ attempt[1] = ScheduleLength
  /\ lastError[1] = thrown[1]
\* identifiers of getErrorIdentifier that are not error codes
SymbolicIdentifiers ==
  {"PRISMA_UNKNOWN_REQUEST_ERROR", "PRISMA_CLIENT_INITIALIZATION_ERROR", "UNKNOWN_ERROR_PRISMA"}

\* the failure an event at position i of the log of c describes
EventFailure(c, i) == log[c][i - 1].err

MessageMatches(e) == e.message.type = "string" /\ SomePatternMatches(e.message.text)

\* C20 as stated: every event describes a failure isRetryable accepted, its
\* identifier is never a code outside RETRYABLE_CODES, and the identifiers
\* UNKNOWN_ERROR_PRISMA and PRISMA_UNKNOWN_REQUEST_ERROR appear only for a
\* failure whose message matches a pattern.
C20_EventCodesInSet ==
  \A c \in calls : \A i \in 2..Len(log[c]) :
    log[c][i].type = "warn" =>
      /\ isRetryable(EventFailure(c, i))
      /\ log[c][i].errorId \notin SymbolicIdentifiers =>
            log[c][i].errorId \in {"P1001", "P1002", "P1008", "P1017", "P2024"}
      /\ log[c][i].errorId \in {"UNKNOWN_ERROR_PRISMA", "PRISMA_UNKNOWN_REQUEST_ERROR"} =>
            MessageMatches(EventFailure(c, i))

\* C20 amended: every event describes a failure isRetryable accepted; the
\* identifier of an event for a known request error is its code, which is
\* in RETRYABLE_CODES; UNKNOWN_ERROR_PRISMA and PRISMA_UNKNOWN_REQUEST_ERROR
\* appear only for a failure whose message matches a pattern; the
\* identifier of an event for an initialization error is its errorCode,
\* inside the set or not, or PRISMA_CLIENT_INITIALIZATION_ERROR.
C20_EventDescribesAcceptedFailure ==
  \A c \in calls : \A i \in 2..Len(log[c]) :
    log[c][i].type = "warn" =>
      LET e == EventFailure(c, i) IN
        /\ log[c][i - 1].type = "reject"
        /\ isRetryable(e)
        /\ e.kind = KnownRequestError =>
              /\ log[c][i].errorId = e.code
              /\ e.code \in {"P1001", "P1002", "P1008", "P1017", "P2024"}
        /\ log[c][i].errorId \in {"UNKNOWN_ERROR_PRISMA", "PRISMA_UNKNOWN_REQUEST_ERROR"} =>
              MessageMatches(e)
        /\ e.kind = InitializationError =>
              log[c][i].errorId =
                (IF e.code = Undefined THEN "PRISMA_CLIENT_INITIALIZATION_ERROR" ELSE e.code)

C20_Witness ==
  /\ Len(Events(1)) = 2
  /\ Events(1)[1].errorId = "P1003"
  /\ Events(1)[2].errorId = "UNKNOWN_ERROR_PRISMA"
  /\ Outcomes(1)[1].err.kind = InitializationError
(***************************************************************************)
(* Two wrapped calls in flight at once, their steps interleaved freely.    *)
(***************************************************************************)
\* Failures and random values of the concurrent runs: one retryable and
\* one non-retryable failure, the smallest and the largest jitter.
ConcurrentErrors ==
  { [kind |-> KnownRequestError, code |-> "P1001", message |-> StringMessage(MsgCantReach)],
    [kind |-> KnownRequestError, code |-> "P2002", message |-> StringMessage(MsgUnique)] }

ConcurrentSamples == {0, RandomScale - 1}

InitConcurrent ==
  /\ schedule = RETRY_DELAYS_MS
  /\ EnvInit
  /\ calls = {1, 2}
  /\ request = [c \in CallIds |-> NoRequest]
  /\ pc = [c \in CallIds |-> "idle"]
  /\ attempt = [c \in CallIds |-> 0]
  /\ lastError = [c \in CallIds |-> UndefinedValue]
  /\ result = [c \in CallIds |-> NoResult]
  /\ thrown = [c \in CallIds |-> UndefinedValue]
  /\ exitLine = [c \in CallIds |-> 0]
  /\ log = [c \in CallIds |-> <<>>]
  /\ arg = UndefinedValue
  /\ verdict = FALSE
  /\ hpc = "off"

NextConcurrent ==
  \/ \E c \in CallIds, m \in Models, op \in Operations, a \in ArgsValues : AllOperations(c, m, op, a)
  \/ \E c \in CallIds, v \in Results : QueryResolves(c, v)
  \/ \E c \in CallIds, sh \in ConcurrentErrors, rnd \in ConcurrentSamples : QueryRejects(c, sh, rnd)
  \/ \E c \in CallIds : DelayElapses(c)

SpecConcurrent == InitConcurrent /\ [][NextConcurrent]_vars

\* the state of call c is the one its own outcomes determine
OwnOutcomesDecide(c) ==
  LET n == Len(Outcomes(c)) IN
    /\ pc[c] = "idle" => log[c] = <<>>
    /\ pc[c] = "awaitQuery" =>
         (attempt[c] = n /\ Invocations(c) = n + 1 /\ Len(Delays(c)) = n)
    /\ pc[c] = "awaitDelay" =>
         (attempt[c] = n - 1 /\ Invocations(c) = n /\ Len(Delays(c)) = n)
    /\ Terminated(c) =>
         /\ attempt[c] = n - 1 /\ Invocations(c) = n /\ Len(Delays(c)) = n - 1
         /\ Outcomes(c)[n].type = "resolve" =>
               (pc[c] = "returned" /\ result[c] = Outcomes(c)[n].value)
         /\ Outcomes(c)[n].type = "reject" =>
               /\ pc[c] = "thrown" /\ thrown[c] = Outcomes(c)[n].err
               /\ ~isRetryable(Outcomes(c)[n].err) \/ n = ScheduleLength + 1
    /\ \A i \in 1..n :
         /\ Outcomes(c)[i].type = "reject" => Outcomes(c)[i].err.oid[1] = c
         /\ Outcomes(c)[i].type = "resolve" => Outcomes(c)[i].value.from[1] = c
         /\ (i < n \/ pc[c] = "awaitDelay") => RetryableReject(Outcomes(c)[i])

\* a step that adds no effect to the log of call c leaves c as it was
StepLeavesOthersAlone ==
  \A c \in CallIds :
    log'[c] = log[c] =>
      /\ pc'[c] = pc[c] /\ attempt'[c] = attempt[c] /\ lastError'[c] = lastError[c]
      /\ result'[c] = result[c] /\ thrown'[c] = thrown[c]
      /\ exitLine'[c] = exitLine[c] /\ request'[c] = request[c]

\* C12: with two calls in flight, under every interleaving, the attempt
\* counter, the numbers of invocations and delays and the final outcome of
\* each call are those its own outcomes determine, and a step of one call
\* changes nothing of the other.
C12_CallsIndependent ==
  /\ [](\A c \in CallIds : OwnOutcomesDecide(c))
  /\ [][StepLeavesOthersAlone]_vars

C12_Witness ==
  /\ pc[1] = "awaitDelay" /\ attempt[1] = 2
  /\ pc[2] = "awaitQuery" /\ attempt[2] = 1
  /\ Invocations(1) = 3 /\ Invocations(2) = 2
(***************************************************************************)
(* The single-retry variant: "one-shot-connection-retry".                  *)
(***************************************************************************)
RETRYABLE_CODES_OneShot == <<"P1001", "P1002", "P1008", "P1017", "P2024">>

RETRY_DELAY_MS == 1000

\* isRetryable of the single-retry variant; e.errorCode ?? ''
isRetryableOneShot(e) ==
  \/ e.kind = KnownRequestError /\ Includes(RETRYABLE_CODES_OneShot, e.code)
  \/ /\ e.kind = InitializationError
     /\ Includes(RETRYABLE_CODES_OneShot, IF e.code = Undefined THEN "" ELSE e.code)

\* (err as { code?: string }).code ?? 'no error code, assuming: P1001':
\* only a known request error has the property `code`
OneShotErrorId(e) ==
  IF e.kind = KnownRequestError THEN e.code ELSE "no error code, assuming: P1001"

\* variant: the second attempt follows at once
OneShotRetryEffects_NoDelay(req, e) ==
  << [type |-> "warn", operation |-> req.operation, errorId |-> OneShotErrorId(e),
      retryIn |-> Seconds(RETRY_DELAY_MS)] >>

\* lines 237-243: the console.warn call, then the setTimeout of the delay
OneShotRetryEffects(req, e) ==
  << [type |-> "warn", operation |-> req.operation, errorId |-> OneShotErrorId(e),
      retryIn |-> Seconds(RETRY_DELAY_MS)],
     [type |-> "setTimeout", ms |-> RETRY_DELAY_MS] >>

\* The failures the underlying query raises in the runs of this variant.
OneShotErrors ==
  QueryErrors \cup
  { [kind |-> InitializationError, code |-> "P1001", message |-> StringMessage(MsgCantReach)],
    [kind |-> KnownRequestError, code |-> "P1017", message |-> StringMessage(MsgServerHasClosed)],
    [kind |-> KnownRequestError, code |-> "P2024", message |-> StringMessage(MsgOpTimedOut)] }

\* The layers of the client below frame c: when the handler at frame c
\* calls `query(args)` and the client has further layers, the call enters
\* the handler of the next layer, which calls its own `query(args)` before
\* its first await, and so on down to the query engine.
Below(c) == {f \in CallIds : c < f /\ f <= Len(prisma.layers)}

\* The application calls an operation: the first `query(args)` of line 232.
OneShotAllOperations(c, operation, args) ==
  /\ c \in calls
  /\ pc[c] = "idle"
  /\ LET entered == {c} \cup Below(c) IN
       /\ request' = [f \in CallIds |->
            IF f \in entered
              THEN [model |-> "", operation |-> operation, args |-> args]
              ELSE request[f]]
       /\ log' = [f \in CallIds |->
            IF f \in entered THEN Append(log[f], [type |-> "query", args |-> args])
                             ELSE log[f]]
       /\ pc' = [f \in CallIds |-> IF f \in entered THEN "firstAttempt" ELSE pc[f]]
  /\ UNCHANGED <<calls, attempt, lastError, result, thrown, exitLine, arg, verdict, hpc, envVars>>

\* The awaited `query(args)` resolved with r: line 232 or 245 returns it.
OneShotResolved(c, r) ==
  /\ log' = [log EXCEPT ![c] = Append(@, [type |-> "resolve", value |-> r])]
  /\ Terminate(c, "returned", r, IF pc[c] = "firstAttempt" THEN 232 ELSE 245)
  /\ UNCHANGED <<calls, request, attempt, lastError, arg, verdict, hpc, envVars>>

\* The first `query(args)` rejected with err: the catch block, lines 233-243.
OneShotFirstCaught(c, err) ==
  /\ LET lg == Append(log[c], [type |-> "reject", err |-> err]) IN
       IF ~isRetryableOneShot(err)
         THEN /\ log' = [log EXCEPT ![c] = lg]
              /\ Terminate(c, "thrown", err, 235)
         ELSE /\ log' = [log EXCEPT ![c] = lg \o OneShotRetryEffects(request[c], err)]
              /\ pc' = [pc EXCEPT ![c] = "retryDelay"]
              /\ UNCHANGED <<result, thrown, exitLine>>
  /\ UNCHANGED <<calls, request, attempt, lastError, arg, verdict, hpc, envVars>>

\* The second `query(args)` rejected with err: it leaves the catch block.
OneShotSecondCaught(c, err) ==
  /\ log' = [log EXCEPT ![c] = Append(@, [type |-> "reject", err |-> err])]
  /\ Terminate(c, "thrown", err, 245)
  /\ UNCHANGED <<calls, request, attempt, lastError, arg, verdict, hpc, envVars>>

\* The query engine resolves the `query(args)` of the innermost layer.
OneShotQueryResolves(c, v) ==
  /\ pc[c] \in {"firstAttempt", "secondAttempt"}
  /\ Below(c) = {}
  /\ OneShotResolved(c, [val |-> v, from |-> <<c, Invocations(c)>>])

\* The query engine rejects the first `query(args)` of the innermost layer.
OneShotFirstRejects(c, sh) ==
  /\ pc[c] = "firstAttempt"
  /\ Below(c) = {}
  /\ OneShotFirstCaught(c, Failure(sh.kind, sh.code, sh.message, <<c, Invocations(c)>>))

\* The timer of line 243 fires: the second `query(args)` of line 245, which
\* enters the layers below afresh.
OneShotDelayElapses(c) ==
  /\ pc[c] = "retryDelay"
  /\ log' = [f \in CallIds |->
       IF f \in {c} \cup Below(c)
         THEN Append(log[f], [type |-> "query", args |-> request[c].args])
         ELSE log[f]]
  /\ pc' = [f \in CallIds |->
       IF f = c THEN "secondAttempt" ELSE IF f \in Below(c) THEN "firstAttempt" ELSE pc[f]]
  /\ result' = [f \in CallIds |-> IF f \in Below(c) THEN NoResult ELSE result[f]]
  /\ thrown' = [f \in CallIds |-> IF f \in Below(c) THEN UndefinedValue ELSE thrown[f]]
  /\ exitLine' = [f \in CallIds |-> IF f \in Below(c) THEN 0 ELSE exitLine[f]]
  /\ UNCHANGED <<calls, request, attempt, lastError, arg, verdict, hpc, envVars>>

\* The query engine rejects the second `query(args)` of the innermost layer.
OneShotSecondRejects(c, sh) ==
  /\ pc[c] = "secondAttempt"
  /\ Below(c) = {}
  /\ OneShotSecondCaught(c, Failure(sh.kind, sh.code, sh.message, <<c, Invocations(c)>>))

\* The handler of the layer below has ended: the `query(args)` that frame c
\* awaits settles with the value it returned or the failure it threw.
OneShotInnerSettles(c) ==
  /\ c + 1 \in Below(c)
  /\ pc[c] \in {"firstAttempt", "secondAttempt"}
  /\ Terminated(c + 1)
  /\ IF pc[c + 1] = "returned"
       THEN OneShotResolved(c, result[c + 1])
       ELSE IF pc[c] = "firstAttempt"
              THEN OneShotFirstCaught(c, thrown[c + 1])
              ELSE OneShotSecondCaught(c, thrown[c + 1])

InitOneShot ==
  /\ schedule = <<RETRY_DELAY_MS>>
  /\ EnvInit
  /\ calls = {1}
  /\ request = [c \in CallIds |-> NoRequest]
  /\ pc = [c \in CallIds |-> "idle"]
  /\ attempt = [c \in CallIds |-> 0]
  /\ lastError = [c \in CallIds |-> UndefinedValue]
  /\ result = [c \in CallIds |-> NoResult]
  /\ thrown = [c \in CallIds |-> UndefinedValue]
  /\ exitLine = [c \in CallIds |-> 0]
  /\ log = [c \in CallIds |-> <<>>]
  /\ arg = UndefinedValue
  /\ verdict = FALSE
  /\ hpc = "off"

NextOneShot ==
  \/ \E c \in CallIds, op \in Operations, a \in ArgsValues : OneShotAllOperations(c, op, a)
  \/ \E c \in CallIds, v \in Results : OneShotQueryResolves(c, v)
  \/ \E c \in CallIds, sh \in OneShotErrors : OneShotFirstRejects(c, sh)
  \/ \E c \in CallIds : OneShotDelayElapses(c)
  \/ \E c \in CallIds, sh \in OneShotErrors : OneShotSecondRejects(c, sh)

SpecOneShot == InitOneShot /\ [][NextOneShot]_vars

\* C16: in the single-retry variant a first attempt that fails with an
\* initialization error, whatever its errorCode, is followed by the one
\* retry: the call does not end at line 235 and the delay is started.
C16_OneShotRetriesInitialization ==
  \A c \in calls :
    (/\ Len(Outcomes(c)) >= 1
     /\ Outcomes(c)[1].type = "reject"
     /\ Outcomes(c)[1].err.kind = InitializationError) =>
      /\ isRetryableOneShot(Outcomes(c)[1].err)
      /\ exitLine[c] # 235
      /\ Len(Delays(c)) = 1
(***************************************************************************)
(* The two variants side by side: call 1 runs the single-retry handler,    *)
(* call 2 the multi-attempt handler with the schedule [RETRY_DELAY_MS] and *)
(* Math.random() = 0, that is, no jitter.                                  *)
(***************************************************************************)
OneShotCall == 1

MultiAttemptCall == 2

InitEquiv ==
  /\ schedule = <<RETRY_DELAY_MS>>
  /\ EnvInit
  /\ calls = {OneShotCall, MultiAttemptCall}
  /\ request = [c \in CallIds |-> NoRequest]
  /\ pc = [c \in CallIds |-> "idle"]
  /\ attempt = [c \in CallIds |-> 0]
  /\ lastError = [c \in CallIds |-> UndefinedValue]
  /\ result = [c \in CallIds |-> NoResult]
  /\ thrown = [c \in CallIds |-> UndefinedValue]
  /\ exitLine = [c \in CallIds |-> 0]
  /\ log = [c \in CallIds |-> <<>>]
  /\ arg = UndefinedValue
  /\ verdict = FALSE
  /\ hpc = "off"

NextEquiv ==
  \/ \E op \in Operations, a \in ArgsValues : OneShotAllOperations(OneShotCall, op, a)
  \/ \E v \in Results : OneShotQueryResolves(OneShotCall, v)
  \/ \E sh \in OneShotErrors : OneShotFirstRejects(OneShotCall, sh)
  \/ OneShotDelayElapses(OneShotCall)
  \/ \E sh \in OneShotErrors : OneShotSecondRejects(OneShotCall, sh)
  \/ \E m \in Models, op \in Operations, a \in ArgsValues :
        AllOperations(MultiAttemptCall, m, op, a)
  \/ \E v \in Results : QueryResolves(MultiAttemptCall, v)
  \/ \E sh \in OneShotErrors : QueryRejects(MultiAttemptCall, sh, 0)
  \/ DelayElapses(MultiAttemptCall)

SpecEquiv == InitEquiv /\ [][NextEquiv]_vars

\* an outcome without the identity of the object that carries it
OutcomeShape(en) ==
  IF en.type = "resolve"
    THEN [type |-> "resolve", val |-> en.value.val, kind |-> "", code |-> "", message |-> NoMessage]
    ELSE [type |-> "reject", val |-> 0, kind |-> en.err.kind, code |-> en.err.code,
          message |-> en.err.message]

OutcomeShapes(c) == [i \in 1..Len(Outcomes(c)) |-> OutcomeShape(Outcomes(c)[i])]

IsPrefix(s, t) == Len(s) <= Len(t) /\ \A i \in 1..Len(s) : s[i] = t[i]

\* the two calls met one sequence of operation outcomes
SameOutcomeSequence ==
  \/ IsPrefix(OutcomeShapes(OneShotCall), OutcomeShapes(MultiAttemptCall))
  \/ IsPrefix(OutcomeShapes(MultiAttemptCall), OutcomeShapes(OneShotCall))

\* the two classifiers give one verdict for every failure of call c
SameVerdicts(c) ==
  \A i \in 1..Len(Outcomes(c)) :
    Outcomes(c)[i].type = "reject" =>
      (isRetryable(Outcomes(c)[i].err) <=> isRetryableOneShot(Outcomes(c)[i].err))

DelayMs(c) == [i \in 1..Len(Delays(c)) |-> Delays(c)[i].ms]

\* C17: when both variants have ended on the same sequence of outcomes
\* and the classifiers agree on every failure in it, they made the same
\* number of invocations (at most 2), started the same delays, logged
\* the same number of events, and ended alike: the value of the same
\* invocation returned, or the failure of the same invocation propagated.
C17_OneShotIsSingleEntrySchedule ==
  (/\ Terminated(OneShotCall) /\ Terminated(MultiAttemptCall)
   /\ SameOutcomeSequence
   /\ SameVerdicts(OneShotCall) /\ SameVerdicts(MultiAttemptCall)) =>
    /\ Invocations(OneShotCall) = Invocations(MultiAttemptCall)
    /\ Invocations(OneShotCall) <= 2
    /\ DelayMs(OneShotCall) = DelayMs(MultiAttemptCall)
    /\ Len(Delays(OneShotCall)) <= 1
    /\ Len(Events(OneShotCall)) = Len(Events(MultiAttemptCall))
    /\ pc[OneShotCall] = pc[MultiAttemptCall]
    /\ result[OneShotCall].val = result[MultiAttemptCall].val
    /\ result[OneShotCall].from[2] = result[MultiAttemptCall].from[2]
    /\ thrown[OneShotCall].kind = thrown[MultiAttemptCall].kind
    /\ thrown[OneShotCall].code = thrown[MultiAttemptCall].code
    /\ thrown[OneShotCall].message = thrown[MultiAttemptCall].message
    /\ thrown[OneShotCall].oid[2] = thrown[MultiAttemptCall].oid[2]

\* both variants retried once and both propagated the second failure
C17_Witness ==
  /\ Terminated(OneShotCall) /\ Terminated(MultiAttemptCall)
  /\ SameOutcomeSequence
  /\ SameVerdicts(OneShotCall) /\ SameVerdicts(MultiAttemptCall)
  /\ Invocations(OneShotCall) = 2 /\ Invocations(MultiAttemptCall) = 2
  /\ pc[OneShotCall] = "thrown" /\ pc[MultiAttemptCall] = "thrown"
  /\ Len(Delays(MultiAttemptCall)) = 1
  /\ isRetryable(thrown[MultiAttemptCall])
(***************************************************************************)
(* Evaluation of the module: the client singleton.  In development the     *)
(* module is evaluated again on every hot reload while globalThis stays.   *)
(* A client is the PrismaClient instance it was built from (id) and the    *)
(* query extensions applied to it, in the order of application; $extends   *)
(* returns a client whose operations run the new extension around the      *)
(* operations of the client it was called on.                              *)
(***************************************************************************)
MaxEvaluations == 3

EnhancedName == "enhanced-connection-retry"

OneShotName == "one-shot-connection-retry"

\* new PrismaClient(), the n-th instance
NewPrismaClient(n) == [id |-> n, layers |-> <<>>]

\* client.$extends(Prisma.defineExtension({ name, query: ... }))
Extends(client, name) == [client EXCEPT !.layers = Append(@, name)]

\* variant: the stored client is extended again
EnhancedClient_ExtendsStored(stored, n) ==
  Extends(IF stored # NoClient THEN stored ELSE NewPrismaClient(n), EnhancedName)

\* lines 105-163: globalForPrisma.prisma ?? new PrismaClient().$extends(...)
EnhancedClient(stored, n) ==
  IF stored # NoClient THEN stored ELSE Extends(NewPrismaClient(n), EnhancedName)

\* line 213: const base = globalForPrisma.prisma ?? new PrismaClient()
OneShotBase(stored, n) == IF stored # NoClient THEN stored ELSE NewPrismaClient(n)

\* lines 216-251: const prisma = base.$extends(...)
OneShotClient(stored, n) == Extends(OneShotBase(stored, n), OneShotName)

\* lines 167 and 255: the client is stored unless NODE_ENV is 'production'
Saved(client) == IF nodeEnv # "production" THEN client ELSE globalForPrisma

\* no operation is under way
Quiet == \A c \in CallIds : pc[c] = "idle"

\* every extension of the client has the given name
OnlyLayers(client, name) == \A i \in 1..Len(client.layers) : client.layers[i] = name

\* the module of one variant is the one the application imports
Deployed(name) == OnlyLayers(prisma, name) /\ OnlyLayers(globalForPrisma, name)

\* The module of the multi-attempt variant is evaluated (lines 101-169).
EvaluateEnhanced ==
  /\ evaluations < MaxEvaluations
  /\ Quiet
  /\ Deployed(EnhancedName)
  /\ prisma' = EnhancedClient(globalForPrisma, evaluations + 1)
  /\ globalForPrisma' = Saved(prisma')
  /\ evaluations' = evaluations + 1
  /\ UNCHANGED <<callVars, arg, verdict, hpc, schedule, nodeEnv, base, random, jittered>>

\* The module of the single-retry variant is evaluated (lines 211-257).
EvaluateOneShot ==
  /\ evaluations < MaxEvaluations
  /\ Quiet
  /\ Deployed(OneShotName)
  /\ prisma' = OneShotClient(globalForPrisma, evaluations + 1)
  /\ globalForPrisma' = Saved(prisma')
  /\ evaluations' = evaluations + 1
  /\ UNCHANGED <<callVars, arg, verdict, hpc, schedule, nodeEnv, base, random, jittered>>

\* the application calls an operation of the exported client
Exported(name) ==
  /\ prisma # NoClient
  /\ Len(prisma.layers) \in 1..MaxCalls
  /\ OnlyLayers(prisma, name)

\* The failures the query engine raises in the runs on the exported client.
ReloadErrors ==
  { [kind |-> KnownRequestError, code |-> "P1001", message |-> StringMessage(MsgCantReach)],
    [kind |-> KnownRequestError, code |-> "P2002", message |-> StringMessage(MsgUnique)] }

InitReload ==
  /\ schedule = RETRY_DELAYS_MS
  /\ globalForPrisma = NoClient
  /\ prisma = NoClient
  /\ nodeEnv \in {"development", "production"}
  /\ evaluations = 0
  /\ base = 0
  /\ random = 0
  /\ jittered = 0
  /\ calls = {1}
  /\ request = [c \in CallIds |-> NoRequest]
  /\ pc = [c \in CallIds |-> "idle"]
  /\ attempt = [c \in CallIds |-> 0]
  /\ lastError = [c \in CallIds |-> UndefinedValue]
  /\ result = [c \in CallIds |-> NoResult]
  /\ thrown = [c \in CallIds |-> UndefinedValue]
  /\ exitLine = [c \in CallIds |-> 0]
  /\ log = [c \in CallIds |-> <<>>]
  /\ arg = UndefinedValue
  /\ verdict = FALSE
  /\ hpc = "off"

NextReload ==
  \/ EvaluateEnhanced
  \/ EvaluateOneShot
  \/ \E c \in CallIds, m \in Models, op \in Operations, a \in ArgsValues :
        Exported(EnhancedName) /\ AllOperations(c, m, op, a)
  \/ \E c \in CallIds, v \in Results : Below(c) = {} /\ QueryResolves(c, v)
  \/ \E c \in CallIds, sh \in ReloadErrors : Below(c) = {} /\ QueryRejects(c, sh, 0)
  \/ \E c \in CallIds : DelayElapses(c)
  \/ \E c \in CallIds, op \in Operations, a \in ArgsValues :
        Exported(OneShotName) /\ OneShotAllOperations(c, op, a)
  \/ \E c \in CallIds, v \in Results : OneShotQueryResolves(c, v)
  \/ \E c \in CallIds, sh \in ReloadErrors : OneShotFirstRejects(c, sh)
  \/ \E c \in CallIds : OneShotDelayElapses(c)
  \/ \E c \in CallIds, sh \in ReloadErrors : OneShotSecondRejects(c, sh)
  \/ \E c \in CallIds : OneShotInnerSettles(c)

SpecReload == InitReload /\ [][NextReload]_vars

\* the frame whose `query(args)` is the query engine
Innermost == Len(prisma.layers)

\* the number of timers one caller-level operation has started, all layers
TotalDelays == Cardinality({ <<f, i>> \in CallIds \X (1..40) :
                             i <= Len(log[f]) /\ log[f][i].type = "setTimeout" })

\* C18: with the multi-attempt module evaluated any number of times
\* outside production, the exported client is the one the first evaluation
\* built and stored, it carries the retry extension exactly once, and one
\* caller-level operation makes at most (schedule length + 1) invocations
\* of the engine's query.
C18_ExtensionAppliedOnce ==
  (nodeEnv # "production" /\ evaluations >= 1 /\ Deployed(EnhancedName)) =>
    /\ prisma = [id |-> 1, layers |-> <<EnhancedName>>]
    /\ globalForPrisma = prisma
    /\ Innermost = 1
    /\ Invocations(Innermost) <= Len(schedule) + 1

\* the module was evaluated more than once and an operation used every attempt
C18_Witness ==
  /\ nodeEnv # "production"
  /\ evaluations = MaxEvaluations
  /\ Deployed(EnhancedName)
  /\ pc[1] = "thrown"
  /\ Invocations(Innermost) = Len(schedule) + 1

\* C19: with the single-retry module evaluated any number of times outside
\* production, one caller-level operation on which every engine query
\* fails retryably makes at most 2 invocations of the engine's query and
\* starts at most one delay.
C19_OneRetryPerOperation ==
  (/\ nodeEnv # "production" /\ evaluations >= 1 /\ Deployed(OneShotName)
   /\ Innermost \in CallIds
   /\ \A i \in 1..Len(Outcomes(Innermost)) :
        /\ Outcomes(Innermost)[i].type = "reject"
        /\ isRetryableOneShot(Outcomes(Innermost)[i].err)) =>
    /\ Invocations(Innermost) <= 2
    /\ TotalDelays <= 1
    /\ \A d \in 1..Len(Delays(1)) : Delays(1)[d].ms = 1000
====
